---- MODULE Spec2Model ----
(***************************************************************************)
(* Model of enhanced_video_transitions.py: the EnhancedVideoTransitions    *)
(* engine and its four create_* transition loops.                          *)
(*                                                                         *)
(* Representation.                                                         *)
(*  - A frame is a sequence of rows, each row a sequence of samples in     *)
(*    0..255.  One channel is modelled: every operation of the source      *)
(*    treats the three channels independently and identically.             *)
(*  - progress = frame_num / (duration_frames - 1) is the exact rational   *)
(*    <<num, den>>; the Python floats agree with the rational arithmetic   *)
(*    used here on every input inside the bounds of this model.            *)
(*  - A blend weight is an integer number of millionths (WScale).          *)
(*  - cv2 and numpy are libraries: cv2.addWeighted, np.roll, np.hstack and *)
(*    cv2.filter2D are modelled by their documented arithmetic;            *)
(*    cv2.GaussianBlur by a separable, normalised window of the requested  *)
(*    size with the default reflect-101 border (uniform weights stand in   *)
(*    for the Gaussian ones, which no property below depends on).          *)
(***************************************************************************)
EXTENDS Integers, Sequences, FiniteSets, TLC

\* ------------------------------------------------------------------ bounds
MaxSteps == 6        \* largest duration_frames tried
MaxFrames == 6       \* largest number of frames a video holds
MaxWidth == 3        \* largest output_width tried
MaxHeight == 2       \* largest output_height tried
NumSeeds == 1        \* number of different picture contents per video

WScale == 1000000    \* weights are counted in millionths

\* the duration_frames arguments tried: negative, zero, one and proper ones
Durations == (-1)..MaxSteps

Directions == {"left", "right", "up", "down", "horizontal", "vertical", "diagonal"}

VARIABLES
    output_width,     \* self.output_width
    output_height,    \* self.output_height
    video1,           \* frames of the file behind video1_path
    video2,           \* frames of the file behind video2_path
    pc,               \* "idle", "loop", "break", "done", "error"
    kind,             \* which create_* method is running
    direction,        \* direction argument of create_whip_pan_transition
    duration_frames,  \* duration_frames argument
    frame_num,        \* loop variable of range(duration_frames)
    pos1, pos2,       \* frames already delivered by cap1 / cap2
    reads1, reads2,   \* number of cap1.read() / cap2.read() calls
    locals,           \* per iteration: the values held by the loop body's locals
    sink,             \* frames handed to out.write, with their overlay text
    eos,              \* TRUE once a read() returned ret = False
    retval,           \* the values the method returned: <<>> is None
    err               \* exception that left the method, or "none"

vars == <<output_width, output_height, video1, video2, pc, kind, direction,
          duration_frames, frame_num, pos1, pos2, reads1, reads2, locals,
          sink, eos, retval, err>>

\* ------------------------------------------------------------ arithmetic
Max(a, b) == IF a >= b THEN a ELSE b

Min(a, b) == IF a <= b THEN a ELSE b

RECURSIVE Gcd(_, _)
Gcd(a, b) == IF b = 0 THEN a ELSE Gcd(b, a % b)

\* round(n / d) to the nearest integer, ties to even (cvRound), n >= 0, d > 0
RoundDiv(n, d) ==
    LET q == n \div d
        r == n % d
    IN  IF 2 * r > d THEN q + 1
        ELSE IF 2 * r < d THEN q
        ELSE IF q % 2 = 0 THEN q ELSE q + 1

saturate_cast(v) == IF v < 0 THEN 0 ELSE IF v > 255 THEN 255 ELSE v

\* math.cos(x * math.pi) for x = k/m in lowest terms, in millionths
CosPiTable ==
    [p \in {<<0, 1>>, <<1, 1>>, <<1, 2>>, <<1, 3>>, <<2, 3>>, <<1, 4>>, <<3, 4>>,
            <<1, 5>>, <<2, 5>>, <<3, 5>>, <<4, 5>>, <<1, 6>>, <<5, 6>>,
            <<1, 7>>, <<2, 7>>, <<3, 7>>, <<4, 7>>, <<5, 7>>, <<6, 7>>,
            <<1, 8>>, <<3, 8>>, <<5, 8>>, <<7, 8>>} |->
        CASE p = <<0, 1>> -> 1000000
          [] p = <<1, 1>> -> -1000000
          [] p = <<1, 2>> -> 0
          [] p = <<1, 3>> -> 500000
          [] p = <<2, 3>> -> -500000
          [] p = <<1, 4>> -> 707107
          [] p = <<3, 4>> -> -707107
          [] p = <<1, 5>> -> 809017
          [] p = <<2, 5>> -> 309017
          [] p = <<3, 5>> -> -309017
          [] p = <<4, 5>> -> -809017
          [] p = <<1, 6>> -> 866025
          [] p = <<5, 6>> -> -866025
          [] p = <<1, 7>> -> 900969
          [] p = <<2, 7>> -> 623490
          [] p = <<3, 7>> -> 222521
          [] p = <<4, 7>> -> -222521
          [] p = <<5, 7>> -> -623490
          [] p = <<6, 7>> -> -900969
          [] p = <<1, 8>> -> 923880
          [] p = <<3, 8>> -> 382683
          [] p = <<5, 8>> -> -382683
          [] p = <<7, 8>> -> -923880]

math_cos_pi(progress) ==
    LET g == Gcd(progress[1], progress[2])
    IN  CosPiTable[<<progress[1] \div g, progress[2] \div g>>]

\* ---------------------------------------------------------------- frames
Width(frame) == IF Len(frame) = 0 THEN 0 ELSE Len(frame[1])

Height(frame) == Len(frame)

\* a line of samples / a frame as explicit tuples
Line(f) == SubSeq(f, 1, Len(f))

Rows(f) == SubSeq(f, 1, Len(f))

\* picture k of the video with the given seed, w columns by h rows
Picture(seed, k, w, h) ==
    Rows([r \in 1..h |-> Line([c \in 1..w |-> (seed * 97 + k * 41 + r * 23 + c * 59) % 256])])

\* cv2.resize(frame, (w, h)) for a frame that already has the target size
cv2_resize(frame, w, h) ==
    Rows([r \in 1..h |-> Line([c \in 1..w |->
        frame[((r - 1) * Height(frame)) \div h + 1][((c - 1) * Width(frame)) \div w + 1]])])

\* cv2.addWeighted(src1, alpha, src2, beta, 0), alpha and beta in millionths
cv2_addWeighted(src1, alpha, src2, beta) ==
    Rows([r \in 1..Height(src1) |-> Line([c \in 1..Width(src1) |->
        saturate_cast(RoundDiv(src1[r][c] * alpha + src2[r][c] * beta, WScale))])])

\* np.roll(frame, shift, axis): axis 1 moves columns, axis 0 moves rows
np_roll(frame, shift, axis) ==
    LET h == Height(frame)
        w == Width(frame)
    IN  IF axis = 1
        THEN Rows([r \in 1..h |-> Line([c \in 1..w |-> frame[r][((c - 1 - shift) % w) + 1]])])
        ELSE Rows([r \in 1..h |-> Line([c \in 1..w |-> frame[((r - 1 - shift) % h) + 1][c]])])

\* np.hstack([left, right])
np_hstack(left, right) == Rows([r \in 1..Height(left) |-> left[r] \o right[r]])

\* cv2.borderInterpolate(p, len, BORDER_REFLECT_101), 0-based: the samples are
\* mirrored about both end samples, which repeats with period 2 * (len - 1)
borderInterpolate(p, len) ==
    IF len = 1 THEN 0
    ELSE LET period == 2 * (len - 1)
             q == p % period
         IN  IF q < len THEN q ELSE period - q

\* sum of the ksize samples under the window centred on sample c (1-based)
RECURSIVE SumWindow(_, _, _, _)
SumWindow(line, c, ksize, j) ==
    IF j >= ksize THEN 0
    ELSE line[borderInterpolate(c - 1 + j - (ksize \div 2), Len(line)) + 1]
         + SumWindow(line, c, ksize, j + 1)

\* a 1-D window of ksize equal weights 1/ksize slid along one line of samples
BoxLine(line, ksize) ==
    Line([c \in 1..Len(line) |-> saturate_cast(RoundDiv(SumWindow(line, c, ksize, 0), ksize))])

Column(frame, c) == Line([r \in 1..Height(frame) |-> frame[r][c]])

\* cv2.filter2D(frame, -1, kernel) with kernel = 1 x ksize of 1/ksize
filter2D_horizontal(frame, ksize) ==
    Rows([r \in 1..Height(frame) |-> BoxLine(frame[r], ksize)])

\* cv2.filter2D(frame, -1, kernel) with kernel = ksize x 1 of 1/ksize
filter2D_vertical(frame, ksize) ==
    LET columns == Rows([c \in 1..Width(frame) |-> BoxLine(Column(frame, c), ksize)])
    IN  Rows([r \in 1..Height(frame) |-> Line([c \in 1..Width(frame) |-> columns[c][r]])])

\* cv2.GaussianBlur(frame, (ksize, ksize), 0)
cv2_GaussianBlur(frame, ksize) ==
    filter2D_vertical(filter2D_horizontal(frame, ksize), ksize)


\* ------------------------------------------ EnhancedVideoTransitions methods
\* progress is <<num, den>>; the result is a weight in millionths
cosine_interpolation(progress) == (WScale - math_cos_pi(progress)) \div 2

\* 4.0 * progress * (1.0 - progress) as the rational <<num, den>>
progressive_blur_intensity(progress) ==
    <<4 * progress[1] * (progress[2] - progress[1]), progress[2] * progress[2]>>

\* max(3, int(motion_intensity * 30) + 1)
motion_blur_kernel_size(motion_intensity) ==
    Max(3, (motion_intensity[1] * 30) \div motion_intensity[2] + 1)

\* variant: the two weights exchanged
enhanced_blend_frames_swapped(frame1, frame2, alpha) ==
    LET smooth_alpha == cosine_interpolation(alpha)
    IN  cv2_addWeighted(frame1, smooth_alpha, frame2, WScale - smooth_alpha)

enhanced_blend_frames(frame1, frame2, alpha) ==
    LET smooth_alpha == cosine_interpolation(alpha)
    IN  cv2_addWeighted(frame1, WScale - smooth_alpha, frame2, smooth_alpha)

\* kernel_size of apply_progressive_blur after its parity adjustment
progressive_blur_kernel(blur_intensity) ==
    LET kernel_size == Max(3, (blur_intensity[1] * 30) \div blur_intensity[2] + 1)
    IN  IF kernel_size % 2 = 0 THEN kernel_size + 1 ELSE kernel_size

apply_progressive_blur(frame, blur_intensity) ==
    cv2_GaussianBlur(frame, progressive_blur_kernel(blur_intensity))

\* kernel_size of apply_motion_blur after its parity adjustment
motion_blur_kernel(motion_intensity) ==
    LET kernel_size == motion_blur_kernel_size(motion_intensity)
    IN  IF kernel_size % 2 = 0 THEN kernel_size + 1 ELSE kernel_size

\* which branch of apply_motion_blur the direction selects
motion_blur_axis(dir) ==
    IF dir \in {"left", "right", "horizontal"} THEN "horizontal"
    ELSE IF dir \in {"up", "down", "vertical"} THEN "vertical"
    ELSE "none"

apply_motion_blur(frame, motion_intensity, dir) ==
    LET kernel_size == motion_blur_kernel(motion_intensity)
    IN  IF dir \in {"left", "right", "horizontal"}
        THEN filter2D_horizontal(frame, kernel_size)
        ELSE IF dir \in {"up", "down", "vertical"}
        THEN filter2D_vertical(frame, kernel_size)
        ELSE frame

\* f"{value:.Nf}": the rational num/den as an integer count of 10^-N
Format(num, den, scale) == RoundDiv(num * scale, den)

\* ------------------------------------------------------ the capture objects
\* cap.read(): <<ret, frame>>
\* variant: end-of-stream reported one frame early
cap_read_short(video, pos) ==
    IF pos + 1 < Len(video) THEN <<TRUE, video[pos + 1]>> ELSE <<FALSE, "None">>

cap_read(video, pos) ==
    IF pos < Len(video) THEN <<TRUE, video[pos + 1]>> ELSE <<FALSE, "None">>

\* position of the capture after a read()
\* variant: a successful read skips a frame
cap_advance_skip(ret, pos) == IF ret THEN pos + 2 ELSE pos

cap_advance(ret, pos) == IF ret THEN pos + 1 ELSE pos

\* for frame_num in range(duration_frames): is there another iteration
\* variant: range(duration_frames - 1)
in_range_short(i, n) == i < n - 1

in_range(i, n) == i < n

\* if not ret1 or not ret2: break
should_break(ret1, ret2) == ~ret1 \/ ~ret2


\* ------------------------------------------------------------ loop bodies
\* the translation of create_whip_pan_transition: offset, axis, shifted frames
\* variant: the offset computed from extent - 1
whip_pan_translate_short(blurred_frame1, blurred_frame2, progress, dir, w, h) ==
    IF dir \in {"left", "right"}
    THEN LET sign == IF dir = "right" THEN 1 ELSE -1
             offset == sign * (((w - 1) * progress[1]) \div progress[2])
         IN  [offset |-> offset, axis |-> 1, extent |-> w,
              translated_frame1 |-> np_roll(blurred_frame1, offset, 1),
              translated_frame2 |-> np_roll(blurred_frame2, offset - w, 1)]
    ELSE LET sign == IF dir = "down" THEN 1 ELSE -1
             offset == sign * (((h - 1) * progress[1]) \div progress[2])
         IN  [offset |-> offset, axis |-> 0, extent |-> h,
              translated_frame1 |-> np_roll(blurred_frame1, offset, 0),
              translated_frame2 |-> np_roll(blurred_frame2, offset - h, 0)]

\* int(x) truncates towards zero: int(extent * progress * sign)
whip_pan_translate(blurred_frame1, blurred_frame2, progress, dir, w, h) ==
    IF dir \in {"left", "right"}
    THEN LET sign == IF dir = "right" THEN 1 ELSE -1
             offset == sign * ((w * progress[1]) \div progress[2])
         IN  [offset |-> offset, axis |-> 1, extent |-> w,
              translated_frame1 |-> np_roll(blurred_frame1, offset, 1),
              translated_frame2 |-> np_roll(blurred_frame2, offset - w, 1)]
    ELSE LET sign == IF dir = "down" THEN 1 ELSE -1
             offset == sign * ((h * progress[1]) \div progress[2])
         IN  [offset |-> offset, axis |-> 0, extent |-> h,
              translated_frame1 |-> np_roll(blurred_frame1, offset, 0),
              translated_frame2 |-> np_roll(blurred_frame2, offset - h, 0)]

\* the two halves of create_comparison_demo and their concatenation
\* variant: the left half eased like the right one
comparison_halves_both_eased(frame1, frame2, progress) ==
    LET left_result == enhanced_blend_frames(frame1, frame2, progress)
        right_result == enhanced_blend_frames(frame1, frame2, progress)
    IN  [left_result |-> left_result, right_result |-> right_result,
         comparison_frame |-> np_hstack(left_result, right_result)]

comparison_halves(frame1, frame2, progress) ==
    LET linear_alpha == RoundDiv(progress[1] * WScale, progress[2])
        left_result == cv2_addWeighted(frame1, WScale - linear_alpha, frame2, linear_alpha)
        right_result == enhanced_blend_frames(frame1, frame2, progress)
    IN  [left_result |-> left_result, right_result |-> right_result,
         comparison_frame |-> np_hstack(left_result, right_result)]

\* ------------------------------------------------------------------- Init
Init ==
    /\ output_width = MaxWidth
    /\ output_height = MaxHeight
    /\ \E seed \in 1..NumSeeds, n1 \in 0..MaxFrames, n2 \in 0..MaxFrames :
          /\ video1 = [k \in 1..n1 |-> Picture(seed, k, output_width, output_height)]
          /\ video2 = [k \in 1..n2 |-> Picture(seed + NumSeeds, k + MaxFrames,
                                               output_width, output_height)]
    /\ pc = "idle"
    /\ kind = "none"
    /\ direction = "none"
    /\ duration_frames = 0
    /\ frame_num = 0
    /\ pos1 = 0 /\ pos2 = 0
    /\ reads1 = 0 /\ reads2 = 0
    /\ locals = <<>>
    /\ sink = <<>>
    /\ eos = FALSE
    /\ retval = <<>>
    /\ err = "none"

\* ---------------------------------------------------------------- actions
\* entry of a create_* method: open both captures and the writer, enter the loop
Enter(k, dir, n) ==
    /\ pc = "idle"
    /\ pc' = "loop"
    /\ kind' = k
    /\ direction' = dir
    /\ duration_frames' = n
    /\ frame_num' = 0
    /\ UNCHANGED <<output_width, output_height, video1, video2, pos1, pos2,
                   reads1, reads2, locals, sink, eos, retval, err>>

\* ret1, frame1 = cap1.read(); ret2, frame2 = cap2.read()
ReadBoth(r1, r2) ==
    /\ pos1' = cap_advance(r1[1], pos1)
    /\ pos2' = cap_advance(r2[1], pos2)
    /\ reads1' = reads1 + 1
    /\ reads2' = reads2 + 1

\* if not ret1 or not ret2: break
Break ==
    /\ pc' = "break"
    /\ eos' = TRUE
    /\ UNCHANGED <<frame_num, locals, sink, retval, err>>

\* frame_num / (duration_frames - 1) with duration_frames = 1
ZeroDivision ==
    /\ pc' = "error"
    /\ err' = "ZeroDivisionError"
    /\ UNCHANGED <<frame_num, locals, sink, eos, retval>>

\* out.write(frame) ends the iteration
Emit(rec, frame, text) ==
    /\ locals' = Append(locals, rec)
    /\ sink' = Append(sink, [frame |-> frame, text |-> text])
    /\ frame_num' = frame_num + 1
    /\ pc' = "loop"
    /\ UNCHANGED <<eos, retval, err>>

\* In the iterations the locals of the loop body are bound with \E x \in {e},
\* which evaluates e once, as the assignment statement does.

create_enhanced_dissolve_transition ==
    \E n \in Durations : Enter("dissolve", "none", n)

DissolveIteration ==
    /\ pc = "loop" /\ kind = "dissolve"
    /\ in_range(frame_num, duration_frames)
    /\ UNCHANGED <<output_width, output_height, video1, video2, kind, direction,
                   duration_frames>>
    /\ \E r1 \in {cap_read(video1, pos1)}, r2 \in {cap_read(video2, pos2)} :
        /\ ReadBoth(r1, r2)
        /\ IF should_break(r1[1], r2[1]) THEN Break
           ELSE IF duration_frames - 1 = 0 THEN ZeroDivision
           ELSE \E frame1 \in {cv2_resize(r1[2], output_width, output_height)},
                   frame2 \in {cv2_resize(r2[2], output_width, output_height)},
                   progress \in {<<frame_num, duration_frames - 1>>} :
                \E result_frame \in {enhanced_blend_frames(frame1, frame2, progress)} :
                   Emit([step |-> frame_num, frame1 |-> frame1, frame2 |-> frame2,
                         progress |-> progress, result_frame |-> result_frame],
                        result_frame,
                        [progress |-> Format(progress[1], progress[2], 100),
                         cosine_alpha |-> Format(cosine_interpolation(progress),
                                                 WScale, 1000)])

create_progressive_blur_transition ==
    \E n \in Durations : Enter("blur", "none", n)

ProgressiveBlurIteration ==
    /\ pc = "loop" /\ kind = "blur"
    /\ in_range(frame_num, duration_frames)
    /\ UNCHANGED <<output_width, output_height, video1, video2, kind, direction,
                   duration_frames>>
    /\ \E r1 \in {cap_read(video1, pos1)}, r2 \in {cap_read(video2, pos2)} :
        /\ ReadBoth(r1, r2)
        /\ IF should_break(r1[1], r2[1]) THEN Break
           ELSE IF duration_frames - 1 = 0 THEN ZeroDivision
           ELSE \E frame1 \in {cv2_resize(r1[2], output_width, output_height)},
                   frame2 \in {cv2_resize(r2[2], output_width, output_height)},
                   progress \in {<<frame_num, duration_frames - 1>>} :
                \E blur_intensity \in {progressive_blur_intensity(progress)} :
                \E blurred_frame1 \in {apply_progressive_blur(frame1, blur_intensity)},
                   blurred_frame2 \in {apply_progressive_blur(frame2, blur_intensity)} :
                \E result_frame \in
                       {enhanced_blend_frames(blurred_frame1, blurred_frame2, progress)} :
                   Emit([step |-> frame_num, frame1 |-> frame1, frame2 |-> frame2,
                         progress |-> progress, intensity |-> blur_intensity,
                         kernel_used |-> progressive_blur_kernel(blur_intensity),
                         blurred_frame1 |-> blurred_frame1,
                         blurred_frame2 |-> blurred_frame2,
                         result_frame |-> result_frame],
                        result_frame,
                        [intensity |-> Format(blur_intensity[1], blur_intensity[2], 1000),
                         kernel_size |-> Max(3, (blur_intensity[1] * 30)
                                                 \div blur_intensity[2] + 1)])

create_whip_pan_transition ==
    \E n \in Durations, dir \in Directions : Enter("whip_pan", dir, n)

WhipPanIteration ==
    /\ pc = "loop" /\ kind = "whip_pan"
    /\ in_range(frame_num, duration_frames)
    /\ UNCHANGED <<output_width, output_height, video1, video2, kind, direction,
                   duration_frames>>
    /\ \E r1 \in {cap_read(video1, pos1)}, r2 \in {cap_read(video2, pos2)} :
        /\ ReadBoth(r1, r2)
        /\ IF should_break(r1[1], r2[1]) THEN Break
           ELSE IF duration_frames - 1 = 0 THEN ZeroDivision
           ELSE \E frame1 \in {cv2_resize(r1[2], output_width, output_height)},
                   frame2 \in {cv2_resize(r2[2], output_width, output_height)},
                   progress \in {<<frame_num, duration_frames - 1>>} :
                \E motion_intensity \in {<<4 * progress[1] * (progress[2] - progress[1]),
                                           progress[2] * progress[2]>>} :
                \E blurred_frame1 \in {apply_motion_blur(frame1, motion_intensity, direction)},
                   blurred_frame2 \in {apply_motion_blur(frame2, motion_intensity, direction)} :
                \E tr \in {whip_pan_translate(blurred_frame1, blurred_frame2, progress,
                                              direction, output_width, output_height)} :
                \E result_frame \in {enhanced_blend_frames(tr.translated_frame1,
                                                           tr.translated_frame2, progress)} :
                   Emit([step |-> frame_num, frame1 |-> frame1, frame2 |-> frame2,
                         progress |-> progress, intensity |-> motion_intensity,
                         kernel_used |-> motion_blur_kernel(motion_intensity),
                         blur_axis |-> motion_blur_axis(direction),
                         blurred_frame1 |-> blurred_frame1,
                         blurred_frame2 |-> blurred_frame2,
                         offset |-> tr.offset, roll_axis |-> tr.axis,
                         extent |-> tr.extent,
                         translated_frame1 |-> tr.translated_frame1,
                         translated_frame2 |-> tr.translated_frame2,
                         result_frame |-> result_frame],
                        result_frame,
                        [intensity |-> Format(motion_intensity[1],
                                              motion_intensity[2], 1000),
                         kernel_size |-> motion_blur_kernel_size(motion_intensity)])

create_comparison_demo ==
    \E n \in Durations : Enter("comparison", "none", n)

ComparisonIteration ==
    /\ pc = "loop" /\ kind = "comparison"
    /\ in_range(frame_num, duration_frames)
    /\ UNCHANGED <<output_width, output_height, video1, video2, kind, direction,
                   duration_frames>>
    /\ \E r1 \in {cap_read(video1, pos1)}, r2 \in {cap_read(video2, pos2)} :
        /\ ReadBoth(r1, r2)
        /\ IF should_break(r1[1], r2[1]) THEN Break
           ELSE IF duration_frames - 1 = 0 THEN ZeroDivision
           ELSE \E frame1 \in {cv2_resize(r1[2], output_width, output_height)},
                   frame2 \in {cv2_resize(r2[2], output_width, output_height)},
                   progress \in {<<frame_num, duration_frames - 1>>} :
                \E halves \in {comparison_halves(frame1, frame2, progress)} :
                   Emit([step |-> frame_num, frame1 |-> frame1, frame2 |-> frame2,
                         progress |-> progress,
                         left_result |-> halves.left_result,
                         right_result |-> halves.right_result,
                         result_frame |-> halves.comparison_frame],
                        halves.comparison_frame,
                        [progress |-> Format(progress[1], progress[2], 100)])

\* the loop is over (range exhausted or break): release everything and return
ReleaseAndReturn ==
    /\ \/ pc = "break"
       \/ pc = "loop" /\ ~in_range(frame_num, duration_frames)
    /\ pc' = "done"
    /\ retval' = <<>>
    /\ UNCHANGED <<output_width, output_height, video1, video2, kind, direction,
                   duration_frames, frame_num, pos1, pos2, reads1, reads2, locals,
                   sink, eos, err>>

Next ==
    \/ create_enhanced_dissolve_transition
    \/ DissolveIteration
    \/ create_progressive_blur_transition
    \/ ProgressiveBlurIteration
    \/ create_whip_pan_transition
    \/ WhipPanIteration
    \/ create_comparison_demo
    \/ ComparisonIteration
    \/ ReleaseAndReturn

Spec == Init /\ [][Next]_vars

TypeOK ==
    /\ pc \in {"idle", "loop", "break", "done", "error"}
    /\ kind \in {"none", "dissolve", "blur", "whip_pan", "comparison"}
    /\ duration_frames \in Durations
    /\ Len(sink) = Len(locals)
    /\ pos1 \in 0..Len(video1) /\ pos2 \in 0..Len(video2)

\* ------------------------------------------------------------- properties
Min3(a, b, c) == Min(a, Min(b, c))

\* the left / right half of a double-width frame
LeftHalf(frame, w) == [r \in 1..Height(frame) |-> SubSeq(frame[r], 1, w)]

RightHalf(frame, w) == [r \in 1..Height(frame) |-> SubSeq(frame[r], w + 1, 2 * w)]

\* blend with weight = progress, no easing
LinearBlend(a, b, progress) ==
    LET weight == RoundDiv(progress[1] * WScale, progress[2])
    IN  cv2_addWeighted(a, WScale - weight, b, weight)

\* the frame a step must produce, as a function of that step's two input
\* frames, the step index and the arguments of the call only
StepFrame(k, dir, n, f1, f2, step, w, h) ==
    LET a == cv2_resize(f1, w, h)
        b == cv2_resize(f2, w, h)
        progress == <<step, n - 1>>
        intensity == progressive_blur_intensity(progress)
    IN  CASE k = "dissolve" -> enhanced_blend_frames(a, b, progress)
          [] k = "blur" ->
                enhanced_blend_frames(apply_progressive_blur(a, intensity),
                                      apply_progressive_blur(b, intensity), progress)
          [] k = "whip_pan" ->
                LET tr == whip_pan_translate(apply_motion_blur(a, intensity, dir),
                                             apply_motion_blur(b, intensity, dir),
                                             progress, dir, w, h)
                IN  enhanced_blend_frames(tr.translated_frame1, tr.translated_frame2,
                                          progress)
          [] k = "comparison" ->
                np_hstack(LinearBlend(a, b, progress),
                          enhanced_blend_frames(a, b, progress))

\* C1, state part: with total_steps >= 2 no call raises and a call that has
\* not returned is in the loop of one of the four methods or leaving it (the
\* guards of the iterations and of the return cover these states); frames are emitted one per
\* step in step order; the loop leaves on the first end-of-stream or when the
\* step count is reached, so a finished call has emitted
\* min(total_steps, n1, n2) frames.
C1_Safe ==
    (pc # "idle" /\ duration_frames >= 2) =>
        /\ pc # "error" /\ err = "none"
        /\ kind \in {"dissolve", "blur", "whip_pan", "comparison"}
        /\ frame_num \in 0..duration_frames
        /\ Len(sink) <= Min3(duration_frames, Len(video1), Len(video2))
        /\ \A i \in 1..Len(sink) : locals[i].step = i - 1
        /\ pc = "loop" => frame_num = Len(sink) /\ ~eos
        /\ pc = "break" =>
              /\ frame_num = Min(Len(video1), Len(video2))
              /\ frame_num < duration_frames
              /\ Len(sink) = frame_num
        /\ pc = "done" =>
              /\ Len(sink) = Min3(duration_frames, Len(video1), Len(video2))
              /\ ~eos => frame_num = duration_frames

\* C1, step part: every step of a running loop either leaves the loop or
\* moves the step counter one closer to total_steps, so the loop ends.
C1_Progress ==
    (pc = "loop" /\ duration_frames >= 2) =>
        \/ pc' \in {"break", "done"}
        \/ pc' = "loop" /\ frame_num' = frame_num + 1 /\ Len(sink') = Len(sink) + 1

\* C1: a call with total_steps >= 2 never raises, always terminates (it is
\* never stuck and every loop step consumes one of the total_steps), and has
\* then emitted exactly min(total_steps, n1, n2) frames, one per step, in order.
C1_TruncatingLoop == [](C1_Safe) /\ [][C1_Progress]_vars

C1_Witness ==
    /\ pc = "done" /\ duration_frames >= 3 /\ eos
    /\ Len(sink) >= 1 /\ Len(sink) < duration_frames
    /\ Len(video1) # Len(video2)

\* C2: a call with total_steps < 2 is rejected with InvalidStepCount before
\* any frame is pulled from either source and before any frame is emitted.
C2_RejectedAtEntry ==
    (pc \in {"break", "done", "error"} /\ duration_frames < 2) =>
        /\ err = "InvalidStepCount"
        /\ reads1 = 0 /\ reads2 = 0
        /\ sink = <<>>

\* C3 as stated: the entry point returns the count of frames it emitted, which
\* is below total_steps exactly when a source ended early.
C3_ReturnsCount ==
    pc = "done" =>
        /\ retval = <<Len(sink)>>
        /\ (Len(sink) < duration_frames) <=> eos

\* C3 amended: an entry point that returns returns no value; the number of
\* frames it wrote to the sink is below total_steps exactly when a source
\* reached end-of-stream.
C3_ReturnsNothing ==
    pc = "done" =>
        /\ retval = <<>>
        /\ (Len(sink) < duration_frames) <=> eos

C3_Witness ==
    /\ pc = "done" /\ eos /\ retval = <<>>
    /\ Len(sink) >= 1 /\ Len(sink) < duration_frames

\* C4: every kernel size the derivation produces for a step's intensity -- the
\* value of motion_blur_kernel_size and the sizes used inside the two blur
\* methods -- is odd and at least 3, and a larger intensity never gives a
\* smaller size.
C4_KernelOddMonotone ==
    kind \in {"blur", "whip_pan"} =>
        \A i \in 1..Len(locals) :
            /\ motion_blur_kernel_size(locals[i].intensity) % 2 = 1
            /\ motion_blur_kernel_size(locals[i].intensity) >= 3
            /\ locals[i].kernel_used % 2 = 1
            /\ locals[i].kernel_used >= 3
            /\ \A j \in 1..Len(locals) :
                  locals[i].intensity[1] <= locals[j].intensity[1] =>
                      /\ locals[i].kernel_used <= locals[j].kernel_used
                      /\ motion_blur_kernel_size(locals[i].intensity)
                            <= motion_blur_kernel_size(locals[j].intensity)

\* C5: blending any step's two frames at alpha 0 gives the first and at alpha 1
\* the second; so a dissolve's frame at step 0 is source 1's frame and its
\* frame at step total_steps - 1 is source 2's frame.
C5_BlendBoundary ==
    \A i \in 1..Len(locals) :
        /\ enhanced_blend_frames(locals[i].frame1, locals[i].frame2, <<0, 1>>)
              = locals[i].frame1
        /\ enhanced_blend_frames(locals[i].frame1, locals[i].frame2, <<1, 1>>)
              = locals[i].frame2
        /\ kind = "dissolve" =>
              /\ locals[i].step = 0 =>
                    /\ sink[i].frame = video1[1]
                    /\ locals[i].result_frame = video1[1]
              /\ locals[i].step = duration_frames - 1 =>
                    /\ sink[i].frame = video2[duration_frames]
                    /\ locals[i].result_frame = video2[duration_frames]

C5_Witness ==
    /\ kind = "dissolve" /\ pc = "done" /\ duration_frames >= 3
    /\ Len(sink) = duration_frames
    /\ sink[1].frame # sink[duration_frames].frame
    /\ sink[2].frame # video1[2] /\ sink[2].frame # video2[2]

\* C6: every frame the comparison emits is twice the configured width and the
\* configured height; its left half is the linear blend (weight = progress)
\* and its right half the eased blend of the step's two frames.
C6_ComparisonHalves ==
    kind = "comparison" =>
        \A i \in 1..Len(sink) :
            /\ Height(sink[i].frame) = output_height
            /\ \A r \in 1..output_height : Len(sink[i].frame[r]) = 2 * output_width
            /\ LeftHalf(sink[i].frame, output_width)
                  = LinearBlend(video1[i], video2[i], <<i - 1, duration_frames - 1>>)
            /\ RightHalf(sink[i].frame, output_width)
                  = enhanced_blend_frames(video1[i], video2[i],
                                          <<i - 1, duration_frames - 1>>)

C6_Witness ==
    /\ kind = "comparison" /\ pc = "done" /\ duration_frames >= 4
    /\ Len(sink) = duration_frames
    /\ LeftHalf(sink[2].frame, output_width) # RightHalf(sink[2].frame, output_width)

\* C7: rolling any step's frame by 0 or by the full extent of an axis returns
\* it unchanged; in whip pan, for each of the four directions, the outgoing
\* frame is rolled by offset = trunc(extent * progress * sign) and the incoming
\* one by offset - extent, so the outgoing frame is unshifted at step 0 and
\* the incoming frame is unshifted at the last step.
C7_CyclicShift ==
    \A i \in 1..Len(locals) :
        /\ \A axis \in {0, 1} :
              LET extent == IF axis = 1 THEN output_width ELSE output_height
              IN  /\ np_roll(locals[i].frame1, 0, axis) = locals[i].frame1
                  /\ np_roll(locals[i].frame2, extent, axis) = locals[i].frame2
        /\ (kind = "whip_pan" /\ direction \in {"left", "right", "up", "down"}) =>
              LET rec == locals[i]
                  sign == IF direction \in {"right", "down"} THEN 1 ELSE -1
                  extent == IF direction \in {"left", "right"}
                            THEN output_width ELSE output_height
              IN  /\ rec.extent = extent
                  /\ rec.roll_axis = (IF direction \in {"left", "right"} THEN 1 ELSE 0)
                  /\ rec.offset = sign * ((extent * rec.step) \div (duration_frames - 1))
                  /\ rec.translated_frame1
                        = np_roll(rec.blurred_frame1, rec.offset, rec.roll_axis)
                  /\ rec.translated_frame2
                        = np_roll(rec.blurred_frame2, rec.offset - extent, rec.roll_axis)
                  /\ rec.step = 0 => rec.translated_frame1 = rec.blurred_frame1
                  /\ rec.step = duration_frames - 1 =>
                        rec.translated_frame2 = rec.blurred_frame2

C7_Witness ==
    /\ kind = "whip_pan" /\ direction = "left" /\ pc = "done"
    /\ duration_frames >= 3 /\ Len(sink) = duration_frames
    /\ locals[2].offset # 0
    /\ locals[2].translated_frame1 # locals[2].blurred_frame1
    /\ locals[duration_frames].translated_frame1 = locals[duration_frames].blurred_frame1

C9_BlurAxisMatchesShiftAxis ==
    kind = "whip_pan" =>
        \A i \in 1..Len(locals) :
            /\ locals[i].blur_axis = "horizontal" => locals[i].roll_axis = 1
            /\ locals[i].blur_axis = "vertical" => locals[i].roll_axis = 0
            /\ locals[i].blur_axis = "none" =>
                  /\ locals[i].translated_frame1 = locals[i].blurred_frame1
                  /\ locals[i].translated_frame2 = locals[i].blurred_frame2

\* C10: at every step of progressive blur and whip pan the kernel size shown
\* in the overlay equals the kernel size of the filter applied at that step.
C10_ReportedKernelIsUsedKernel ==
    (kind = "blur" \/ (kind = "whip_pan" /\ motion_blur_axis(direction) # "none")) =>
        \A i \in 1..Len(sink) : sink[i].text.kernel_size = locals[i].kernel_used

====
